---- MODULE Spec2Model ----
(***************************************************************************)
(* Model of Tr-merge-utlity-local.py: an interactive run that picks the   *)
(* commits of a date range, copies the files they changed into            *)
(* <repo_root>/staging_folder, writes the manifest changes.json there and *)
(* zips the staging folder to staged_commits.zip.                         *)
(*                                                                         *)
(* Strings the operator types are sequences of one-character strings.     *)
(* A path is the sequence of its components, relative to the repository   *)
(* root; the file system is a function from the paths of the files that   *)
(* exist to their content, plus the set of the directories that exist.    *)
(***************************************************************************)
EXTENDS Integers, Sequences, FiniteSets, TLC

VARIABLES
    pc,                         \* position of main()
    files,                      \* file system: path -> content
    dirs,                       \* file system: the directories that exist
    start_date_input,           \* main: line 111
    end_date_input,             \* main: line 116
    commits,                    \* main: line 123
    overall_changed_files,      \* main: line 143
    selected_commit_indices,    \* main: line 144
    archive,                    \* staged_commits.zip: entry name -> content
    out,                        \* what the last step printed
    user_input,                 \* the raw line read by the last pass of the loop
    copy_env,                   \* what the file system answered in the last pass of the loop
    env_log,                    \* history: path -> the answers seen for it so far
    backend_calls,              \* history: calls of repo.iter_commits
    manifest_writes,            \* history: calls of create_manifest
    archive_writes,             \* history: calls of zip_staging_folder
    reads                       \* history: lines read from the operator

vars == <<pc, files, dirs, start_date_input, end_date_input, commits,
          overall_changed_files, selected_commit_indices, archive, out,
          user_input, copy_env, env_log, backend_calls, manifest_writes,
          archive_writes, reads>>

-----------------------------------------------------------------------------
(* Bounds of the model *)

\* lines read from the operator in one run (dates and loop entries together)
MaxReads == 5

-----------------------------------------------------------------------------
(* Sequences and characters *)

Range(s) == {s[i] : i \in 1..Len(s)}

Front(s) == SubSeq(s, 1, Len(s) - 1)

IsPrefix(p, s) == Len(p) <= Len(s) /\ SubSeq(s, 1, Len(p)) = p

Digits == <<"0", "1", "2", "3", "4", "5", "6", "7", "8", "9">>

IsDigit(c) == c \in Range(Digits)

DigitVal(c) == (CHOOSE i \in 1..Len(Digits) : Digits[i] = c) - 1

IsSpace(c) == c \in {" ", "\t", "\n"}

\* value of a non-empty sequence of digits
RECURSIVE DigitsVal(_)
DigitsVal(s) ==
    IF Len(s) = 0 THEN 0
    ELSE DigitsVal(Front(s)) * 10 + DigitVal(s[Len(s)])

\* str.strip()
RECURSIVE LStrip(_)
LStrip(s) == IF Len(s) > 0 /\ IsSpace(s[1]) THEN LStrip(Tail(s)) ELSE s

RECURSIVE RStrip(_)
RStrip(s) == IF Len(s) > 0 /\ IsSpace(s[Len(s)]) THEN RStrip(Front(s)) ELSE s

Strip(s) == RStrip(LStrip(s))

\* str.lower(), on the letters the operator's entries are made of
LowerChar(c) ==
    CASE c = "E" -> "e"
      [] c = "X" -> "x"
      [] OTHER -> c

Lower(s) == [i \in 1..Len(s) |-> LowerChar(s[i])]

\* the failure signal of the parsers (None, ValueError)
None == [ok |-> FALSE, val |-> 0]

Some(v) == [ok |-> TRUE, val |-> v]

\* int(user_input): an optional sign, then digits; anything else is ValueError
ParseInt(s) ==
    LET body == IF Len(s) > 0 /\ s[1] \in {"+", "-"} THEN Tail(s) ELSE s
        neg  == Len(s) > 0 /\ s[1] = "-"
    IN  IF Len(body) > 0 /\ \A i \in 1..Len(body) : IsDigit(body[i])
        THEN Some(IF neg THEN 0 - DigitsVal(body) ELSE DigitsVal(body))
        ELSE None

-----------------------------------------------------------------------------
(* parse_date_input: datetime.strptime(date_str, "%d/%m/%Y") *)

\* the fields of s between the separators sep
RECURSIVE Split(_, _)
Split(s, sep) ==
    IF \A i \in 1..Len(s) : s[i] # sep THEN <<s>>
    ELSE LET k == CHOOSE i \in 1..Len(s) :
                      s[i] = sep /\ \A j \in 1..(i - 1) : s[j] # sep
         IN  <<SubSeq(s, 1, k - 1)>> \o Split(SubSeq(s, k + 1, Len(s)), sep)

AllDigits(s) == \A i \in 1..Len(s) : IsDigit(s[i])

\* %d: one or two digits, 1..31 (a single digit may follow a space)
DayField(s) ==
    LET t == IF Len(s) = 2 /\ s[1] = " " THEN Tail(s) ELSE s
    IN  IF Len(t) \in {1, 2} /\ AllDigits(t)
           /\ DigitsVal(t) >= 1 /\ DigitsVal(t) <= 31
        THEN Some(DigitsVal(t)) ELSE None

\* %m: one or two digits, 1..12
MonthField(s) ==
    IF Len(s) \in {1, 2} /\ AllDigits(s) /\ DigitsVal(s) >= 1 /\ DigitsVal(s) <= 12
    THEN Some(DigitsVal(s)) ELSE None

\* %Y: exactly four digits
YearField(s) ==
    IF Len(s) = 4 /\ AllDigits(s) THEN Some(DigitsVal(s)) ELSE None

IsLeap(y) == (y % 4 = 0 /\ y % 100 # 0) \/ y % 400 = 0

\* the month lengths of a year that is never leap
DaysInMonthNoLeap(y, m) ==
    IF m = 2 THEN 28 ELSE IF m \in {4, 6, 9, 11} THEN 30 ELSE 31

DaysInMonth(y, m) ==
    IF m = 2 THEN (IF IsLeap(y) THEN 29 ELSE 28)
    ELSE IF m \in {4, 6, 9, 11} THEN 30 ELSE 31

\* a calendar date as the number yyyymmdd, which orders dates as datetime does
DateValue(y, m, d) == y * 10000 + m * 100 + d

parse_date_input(date_str) ==
    LET f == Split(date_str, "/")
    IN  IF Len(f) # 3 THEN None
        ELSE LET d == DayField(f[1])
                 m == MonthField(f[2])
                 y == YearField(f[3])
             IN  IF d.ok /\ m.ok /\ y.ok /\ y.val >= 1
                    /\ d.val <= DaysInMonth(y.val, m.val)
                 THEN Some(DateValue(y.val, m.val, d.val))
                 ELSE None

-----------------------------------------------------------------------------
(* The file system: os.path, os.makedirs, shutil.rmtree *)

\* os.getcwd(): paths are written relative to the repository root
repo_path == <<>>

staging_folder == repo_path \o <<"staging_folder">>

Join(a, b) == a \o b

Dirname(p) == Front(p)

Exists(fs, ds, p) == p \in DOMAIN fs \/ p \in ds

\* os.path.relpath(p, start), for p under start
RelPath(p, start) == SubSeq(p, Len(start) + 1, Len(p))

\* a directory and the directories above it
Ancestors(d) == {SubSeq(d, 1, k) : k \in 0..Len(d)}

MakeDirs(ds, d) == ds \cup Ancestors(d)

Under(root, p) == IsPrefix(root, p) /\ p # root

\* shutil.rmtree of the directory above root
RmTreeFilesFromParent(fs, root) ==
    [p \in {q \in DOMAIN fs : ~Under(Dirname(root), q)} |-> fs[p]]

\* shutil.rmtree(root)
RmTreeFiles(fs, root) == [p \in {q \in DOMAIN fs : ~Under(root, q)} |-> fs[p]]

RmTreeDirs(ds, root) == {d \in ds : ~IsPrefix(root, d)}

WriteFile(fs, p, content) ==
    [q \in DOMAIN fs \cup {p} |-> IF q = p THEN content ELSE fs[q]]

\* contents: of a file of the working tree, of a copy cut short, of a file a
\* previous run left behind, of the manifest
Original(p)  == [kind |-> "original", paths |-> {p}]
Truncated(p) == [kind |-> "truncated", paths |-> {p}]
Leftover(p)  == [kind |-> "leftover", paths |-> {p}]
ManifestOf(S) == [kind |-> "manifest", paths |-> S]

\* the relative paths of the files under the staging folder
StagedPaths(fs) ==
    {RelPath(p, staging_folder) : p \in {q \in DOMAIN fs : Under(staging_folder, q)}}

-----------------------------------------------------------------------------
(* The repositories, working trees and operator entries the runs draw from *)

a_txt == <<"a.txt">>
b_c_txt == <<"b", "c.txt">>
d_txt == <<"d.txt">>
changes_json == <<"changes.json">>

Paths == {a_txt, b_c_txt, d_txt, changes_json}

\* the files present in the working tree (d.txt is in none of them)
WorkTrees == {{a_txt, b_c_txt}, {a_txt}, {a_txt, b_c_txt, changes_json}}

\* what a previous run left in the staging folder, with its archive
PriorStaging == {{}, {a_txt, <<"old.txt">>, <<"olddir", "x.txt">>}}

Commit(sha, date, parents, diff) ==
    [hexsha |-> sha, committed_date |-> date, parents |-> parents, diff |-> diff]

\* the commits the backend enumerates, in the order it supplies them; diff
\* is the answer of `git diff --name-only <first parent> <commit>`
Histories ==
    { <<>>,
      << Commit("c1", 10, <<>>, <<>>),
         Commit("c2", 20, <<"c1">>, <<a_txt>>),
         Commit("c3", 30, <<"c2">>, <<a_txt, b_c_txt>>) >>,
      << Commit("m1", 20, <<"r0">>, <<>>),
         Commit("m2", 20, <<"m1", "x9">>, <<d_txt, b_c_txt>>),
         Commit("m3", 30, <<"m2">>, <<changes_json>>) >> }

Chars(str) ==
    CASE str = "e"    -> <<"e">>
      [] str = " E "  -> <<" ", "E", " ">>
      [] str = "0"    -> <<"0">>
      [] str = "1"    -> <<"1">>
      [] str = "2"    -> <<"2">>
      [] str = "99"   -> <<"9", "9">>
      [] str = "-1"   -> <<"-", "1">>
      [] str = "x"    -> <<"x">>
      [] str = "01/02/2024" -> <<"0","1","/","0","2","/","2","0","2","4">>
      [] str = " 03/02/2024" -> <<" ","0","3","/","0","2","/","2","0","2","4">>
      [] str = "2024-02-01" -> <<"2","0","2","4","-","0","2","-","0","1">>
      [] str = "31/02/2024" -> <<"3","1","/","0","2","/","2","0","2","4">>

\* the lines the operator may type at the date prompts and in the loop
DateEntries == {Chars(x) : x \in {"01/02/2024", " 03/02/2024", "2024-02-01", "31/02/2024"}}

LoopEntries == {Chars(x) : x \in {"e", " E ", "0", "1", "2", "99", "-1", "x"}}

-----------------------------------------------------------------------------
(* get_commits_between_dates *)

Msg(text, path) == [msg |-> text, path |-> path]

\* the sort of line 40 without reverse=True
InsertOldestFirst(sorted, c) ==
    LET k == Cardinality({i \in 1..Len(sorted) :
                              sorted[i].committed_date <= c.committed_date})
    IN  SubSeq(sorted, 1, k) \o <<c>> \o SubSeq(sorted, k + 1, Len(sorted))

\* list.sort(key=committed_date, reverse=True): stable, so commits of one
\* timestamp keep the order the backend supplied them in
InsertNewestFirst(sorted, c) ==
    LET k == Cardinality({i \in 1..Len(sorted) :
                              sorted[i].committed_date >= c.committed_date})
    IN  SubSeq(sorted, 1, k) \o <<c>> \o SubSeq(sorted, k + 1, Len(sorted))

RECURSIVE SortNewestFirst(_)
SortNewestFirst(cs) ==
    IF Len(cs) = 0 THEN <<>>
    ELSE InsertNewestFirst(SortNewestFirst(Front(cs)), cs[Len(cs)])

\* lines 25-41 without the test of lines 33-35
get_commits_any_order(history, start_date_str, end_date_str) ==
    LET start_date_obj == parse_date_input(start_date_str)
        end_date_obj   == parse_date_input(end_date_str)
    IN  IF ~start_date_obj.ok
        THEN [commits |-> <<>>, called |-> FALSE,
              out |-> <<Msg("Invalid start date", <<>>)>>]
        ELSE IF ~end_date_obj.ok
        THEN [commits |-> <<>>, called |-> FALSE,
              out |-> <<Msg("Invalid end date", <<>>)>>]
        ELSE [commits |-> SortNewestFirst(history), called |-> TRUE, out |-> <<>>]

\* history is what repo.iter_commits would answer; called tells whether it
\* was asked
get_commits_between_dates(history, start_date_str, end_date_str) ==
    LET start_date_obj == parse_date_input(start_date_str)
        end_date_obj   == parse_date_input(end_date_str)
    IN  IF ~start_date_obj.ok
        THEN [commits |-> <<>>, called |-> FALSE,
              out |-> <<Msg("Invalid start date", <<>>)>>]
        ELSE IF ~end_date_obj.ok
        THEN [commits |-> <<>>, called |-> FALSE,
              out |-> <<Msg("Invalid end date", <<>>)>>]
        ELSE IF start_date_obj.val > end_date_obj.val
        THEN [commits |-> <<>>, called |-> FALSE,
              out |-> <<Msg("Start date must be earlier than or equal to end date", <<>>)>>]
        ELSE [commits |-> SortNewestFirst(history), called |-> TRUE, out |-> <<>>]

-----------------------------------------------------------------------------
(* copy_files_to_staging *)

\* what the file system can answer when a directory is made and when a file
\* is copied; "-" marks a call that is not made
NotAsked == [mkdir |-> "-", copy |-> "-"]

\* the answers the file system can give while file_path is handled: none
\* for a file that is missing, one for os.makedirs when dest_dir does not
\* exist yet, and one for shutil.copy2 unless os.makedirs raised. copy2 can
\* fail before it created dest ("error") or after ("truncated"); copying a
\* directory always fails
AnswersFor(st, file_path) ==
    LET src      == Join(repo_path, file_path)
        dest_dir == Dirname(Join(staging_folder, file_path))
        copies   == IF src \in DOMAIN st.files
                    THEN {"ok", "error", "truncated"} ELSE {"error"}
    IN  IF ~Exists(st.files, st.dirs, src) THEN {NotAsked}
        ELSE IF Exists(st.files, st.dirs, dest_dir)
        THEN {[mkdir |-> "-", copy |-> c] : c \in copies}
        ELSE {[mkdir |-> "ok", copy |-> c] : c \in copies}
             \cup {[mkdir |-> "error", copy |-> "-"]}

\* lines 63-64 with the path added to the set all the same
SkipMissingButList(st, file_path) ==
    [st EXCEPT !.out = Append(@, Msg("Warning: file does not exist", file_path)),
               !.staged_files = @ \cup {file_path}]

\* lines 63-64: the file is not in the working tree
SkipMissing(st, file_path) ==
    [st EXCEPT !.out = Append(@, Msg("Warning: file does not exist", file_path))]

\* lines 52-64: one pass of the loop over changed_files. st carries the file
\* system, the set staged_files, the lines printed, whether an exception
\* left the function, and the answers the file system gave
CopyOne(st, file_path, answer) ==
    LET src      == Join(repo_path, file_path)
        dest     == Join(staging_folder, file_path)
        dest_dir == Dirname(dest)
        ds       == IF ~Exists(st.files, st.dirs, dest_dir)
                    THEN MakeDirs(st.dirs, dest_dir) ELSE st.dirs
        asked    == [st.asked EXCEPT ![file_path] = answer]
    IN  IF ~Exists(st.files, st.dirs, src)
        THEN SkipMissing(st, file_path)
        ELSE IF answer.mkdir = "error"
        THEN [st EXCEPT !.raised = TRUE, !.asked = asked]
        ELSE IF answer.copy = "ok"
        THEN [st EXCEPT !.files = WriteFile(@, dest, st.files[src]),
                        !.dirs = ds,
                        !.staged_files = @ \cup {file_path},
                        !.asked = asked]
        ELSE IF answer.copy = "truncated"
        THEN [st EXCEPT !.files = WriteFile(@, dest, Truncated(file_path)),
                        !.dirs = ds,
                        !.out = Append(@, Msg("Error copying", file_path)),
                        !.asked = asked]
        ELSE [st EXCEPT !.dirs = ds,
                        !.out = Append(@, Msg("Error copying", file_path)),
                        !.asked = asked]

\* the loop of line 51 over every answer of the file system: the set of the
\* states it can end in
RECURSIVE CopyLoop(_, _)
CopyLoop(sts, changed_files) ==
    IF Len(changed_files) = 0 THEN sts
    ELSE CopyLoop(UNION {IF st.raised THEN {st}
                         ELSE {CopyOne(st, Head(changed_files), answer) :
                                  answer \in AnswersFor(st, Head(changed_files))} :
                         st \in sts},
                  Tail(changed_files))

copy_files_to_staging(changed_files, fs, ds) ==
    CopyLoop({[files |-> fs, dirs |-> ds, staged_files |-> {}, out |-> <<>>,
               raised |-> FALSE,
               asked |-> [p \in Range(changed_files) |-> NotAsked]]},
             changed_files)

-----------------------------------------------------------------------------
(* create_manifest, zip_staging_folder *)

manifest_path == Join(staging_folder, <<"changes.json">>)

\* the manifest written without its list
create_manifest_unlisted(staged_files, fs) ==
    WriteFile(fs, manifest_path, ManifestOf({}))

\* lines 68-76
create_manifest(staged_files, fs) ==
    WriteFile(fs, manifest_path, ManifestOf(staged_files))

\* the walk that does not descend
WalkTopOnly(fs, ds, root) == {p \in DOMAIN fs : Len(p) > 0 /\ Dirname(p) = root}

\* os.walk(root): the files of root, then those of each directory in it
RECURSIVE Walk(_, _, _)
Walk(fs, ds, root) ==
    {p \in DOMAIN fs : Len(p) > 0 /\ Dirname(p) = root}
    \cup UNION {Walk(fs, ds, d) : d \in {x \in ds : Len(x) > 0 /\ Dirname(x) = root}}

zip_staging_folder(fs, ds) ==
    LET found == Walk(fs, ds, staging_folder)
    IN  [rel_path \in {RelPath(abs_path, staging_folder) : abs_path \in found} |->
            fs[Join(staging_folder, rel_path)]]

-----------------------------------------------------------------------------
(* main *)

InitialFiles(worktree, prior) ==
    [p \in worktree \cup {Join(staging_folder, q) : q \in prior} |->
        IF p \in worktree THEN Original(p) ELSE Leftover(RelPath(p, staging_folder))]

InitialDirs(fs) == UNION {Ancestors(Dirname(p)) : p \in DOMAIN fs} \cup {repo_path}

Init ==
    /\ pc = "open"
    /\ \E worktree \in WorkTrees, prior \in PriorStaging :
          /\ files = InitialFiles(worktree, prior)
          /\ dirs = InitialDirs(InitialFiles(worktree, prior))
          /\ archive = [q \in prior |-> Leftover(q)]
    /\ start_date_input = <<>>
    /\ end_date_input = <<>>
    /\ commits = <<>>
    /\ overall_changed_files = {}
    /\ selected_commit_indices = <<>>
    /\ out = <<>>
    /\ user_input = <<>>
    /\ copy_env = <<>>
    /\ env_log = [p \in Paths |-> {}]
    /\ backend_calls = 0
    /\ manifest_writes = 0
    /\ archive_writes = 0
    /\ reads = 0

\* lines 95-100: Repo(repo_path) opens the repository or raises
OpenRepo ==
    /\ pc = "open"
    /\ \E opened \in BOOLEAN :
          IF opened
          THEN pc' = "head" /\ out' = <<>>
          ELSE pc' = "done" /\ out' = <<Msg("Error opening repository", <<>>)>>
    /\ UNCHANGED <<files, dirs, start_date_input, end_date_input, commits,
                   overall_changed_files, selected_commit_indices, archive,
                   user_input, copy_env, env_log, backend_calls,
                   manifest_writes, archive_writes, reads>>

\* lines 102-107
CheckHead ==
    /\ pc = "head"
    /\ \E is_detached \in BOOLEAN :
          IF ~is_detached
          THEN pc' = "start_date" /\ out' = <<Msg("Current branch", <<>>)>>
          ELSE pc' = "done"
               /\ out' = <<Msg("Repository is in a detached HEAD state", <<>>)>>
    /\ UNCHANGED <<files, dirs, start_date_input, end_date_input, commits,
                   overall_changed_files, selected_commit_indices, archive,
                   user_input, copy_env, env_log, backend_calls,
                   manifest_writes, archive_writes, reads>>

\* lines 110-114: one pass of the first prompt loop
PromptStartDate ==
    /\ pc = "start_date"
    /\ reads < MaxReads
    /\ \E line \in DateEntries :
          /\ start_date_input' = Strip(line)
          /\ IF parse_date_input(Strip(line)).ok
             THEN pc' = "end_date" /\ out' = <<>>
             ELSE pc' = "start_date" /\ out' = <<Msg("Invalid start date", <<>>)>>
    /\ reads' = reads + 1
    /\ UNCHANGED <<files, dirs, end_date_input, commits, overall_changed_files,
                   selected_commit_indices, archive, user_input, copy_env,
                   env_log, backend_calls, manifest_writes, archive_writes>>

\* lines 115-119: one pass of the second prompt loop
PromptEndDate ==
    /\ pc = "end_date"
    /\ reads < MaxReads
    /\ \E line \in DateEntries :
          /\ end_date_input' = Strip(line)
          /\ IF parse_date_input(Strip(line)).ok
             THEN pc' = "query" /\ out' = <<>>
             ELSE pc' = "end_date" /\ out' = <<Msg("Invalid end date", <<>>)>>
    /\ reads' = reads + 1
    /\ UNCHANGED <<files, dirs, start_date_input, commits, overall_changed_files,
                   selected_commit_indices, archive, user_input, copy_env,
                   env_log, backend_calls, manifest_writes, archive_writes>>

\* lines 121-135: the range query, then the listing or the early return
QueryCommits ==
    /\ pc = "query"
    /\ \E history \in Histories :
          LET r == get_commits_between_dates(history, start_date_input, end_date_input)
          IN  /\ r.called \/ history = <<>>    \* unasked, the backend answers nothing
              /\ commits' = r.commits
              /\ backend_calls' = backend_calls + (IF r.called THEN 1 ELSE 0)
              /\ IF Len(r.commits) = 0
                 THEN pc' = "done"
                      /\ out' = Append(r.out, Msg("No commits found in the specified date range", <<>>))
                 ELSE pc' = "prepare"
                      /\ out' = Append(r.out, Msg("Commits between", <<>>))
    /\ UNCHANGED <<files, dirs, start_date_input, end_date_input,
                   overall_changed_files, selected_commit_indices, archive,
                   user_input, copy_env, env_log, manifest_writes,
                   archive_writes, reads>>

\* lines 137-144
PrepareStaging ==
    /\ pc = "prepare"
    /\ files' = IF Exists(files, dirs, staging_folder)
                THEN RmTreeFiles(files, staging_folder) ELSE files
    /\ dirs' = MakeDirs(IF Exists(files, dirs, staging_folder)
                        THEN RmTreeDirs(dirs, staging_folder) ELSE dirs,
                        staging_folder)
    /\ overall_changed_files' = {}
    /\ selected_commit_indices' = <<>>
    /\ pc' = "browsing"
    /\ out' = <<>>
    /\ UNCHANGED <<start_date_input, end_date_input, commits, archive,
                   user_input, copy_env, env_log, backend_calls,
                   manifest_writes, archive_writes, reads>>

\* the test of line 152 without its lower bound
InRangeAnySign(index, n) == index < n

\* line 152
InRange(index, n) == 0 <= index /\ index < n

\* commits[index], as Python indexes a list
CommitAt(cs, index) ==
    IF index >= 0 THEN cs[index + 1] ELSE cs[Len(cs) + index + 1]

\* the test of line 156 never taken
NeverRoot(commit) == FALSE

\* line 156
IsRoot(commit) == Len(commit.parents) = 0

\* the entry as the loop compares it (line 147)
Entered(line) == Lower(Strip(line))

IsEndToken(line) == Entered(line) = <<"e">>

\* line 166 as an assignment
Replace(overall, staged) == staged

\* line 166: overall_changed_files.update(staged)
Update(overall, staged) == overall \cup staged

Logged(log, env) ==
    [p \in DOMAIN log |->
        IF p \in DOMAIN env /\ env[p].copy # "-"
        THEN log[p] \cup {env[p].copy} ELSE log[p]]

\* lines 146-171: one pass of the selection loop, from reading the entry to
\* the next prompt, the break or the exception that ends the run
SelectionPass ==
    /\ pc = "browsing"
    /\ reads < MaxReads
    /\ \E line \in LoopEntries :
          LET n == ParseInt(Entered(line))
          IN  /\ user_input' = line
              /\ IF IsEndToken(line)
                 THEN /\ pc' = "finished"
                      /\ out' = <<>>
                      /\ copy_env' = <<>>
                      /\ UNCHANGED <<files, dirs, overall_changed_files,
                                     selected_commit_indices, env_log>>
                 ELSE IF ~n.ok
                 THEN /\ pc' = "browsing"
                      /\ out' = <<Msg("Invalid input", <<>>)>>
                      /\ copy_env' = <<>>
                      /\ UNCHANGED <<files, dirs, overall_changed_files,
                                     selected_commit_indices, env_log>>
                 ELSE IF ~InRange(n.val, Len(commits))
                 THEN /\ pc' = "browsing"
                      /\ out' = <<Msg("Index out of range", <<>>)>>
                      /\ copy_env' = <<>>
                      /\ UNCHANGED <<files, dirs, overall_changed_files,
                                     selected_commit_indices, env_log>>
                 ELSE LET commit == CommitAt(commits, n.val)
                      IN
                      /\ selected_commit_indices' = Append(selected_commit_indices, n.val)
                      /\ IF IsRoot(commit)
                         THEN /\ pc' = "browsing"
                              /\ out' = <<Msg("Processing commit", <<>>),
                                          Msg("has no parent, skipping", <<>>)>>
                              /\ copy_env' = <<>>
                              /\ UNCHANGED <<files, dirs, overall_changed_files,
                                             env_log>>
                         ELSE IF Len(commit.parents) = 0   \* parents[0]: IndexError
                         THEN /\ pc' = "crashed"
                              /\ out' = <<Msg("Processing commit", <<>>)>>
                              /\ copy_env' = <<>>
                              /\ UNCHANGED <<files, dirs, overall_changed_files,
                                             env_log>>
                         ELSE IF Len(commit.diff) = 0
                         THEN /\ pc' = "browsing"
                              /\ out' = <<Msg("Processing commit", <<>>),
                                          Msg("No changed files in commit", <<>>)>>
                              /\ copy_env' = <<>>
                              /\ UNCHANGED <<files, dirs, overall_changed_files,
                                             env_log>>
                         ELSE \E r \in copy_files_to_staging(commit.diff, files, dirs) :
                              /\ files' = r.files
                              /\ dirs' = r.dirs
                              /\ copy_env' = r.asked
                              /\ env_log' = Logged(env_log, r.asked)
                              /\ IF r.raised
                                 THEN /\ pc' = "crashed"
                                      /\ out' = <<Msg("Processing commit", <<>>)>> \o r.out
                                      /\ UNCHANGED overall_changed_files
                                 ELSE /\ pc' = "browsing"
                                      /\ out' = <<Msg("Processing commit", <<>>)>> \o r.out
                                                \o <<Msg("Staged file(s) from commit", <<>>)>>
                                      /\ overall_changed_files' =
                                            Update(overall_changed_files, r.staged_files)
    /\ reads' = reads + 1
    /\ UNCHANGED <<start_date_input, end_date_input, commits, archive,
                   backend_calls, manifest_writes, archive_writes>>

\* lines 173-184 with the return of line 175 never taken
AfterSelectionNeverReturns(staged) == "manifest"

\* lines 173-188 with the call of line 184 left out
AfterSelectionSkipsManifest(staged) == IF staged = {} THEN "done" ELSE "zip"

\* lines 173-184: where main goes once the loop is left
AfterSelection(staged) == IF staged = {} THEN "done" ELSE "manifest"

\* lines 173-181
CheckStaged ==
    /\ pc = "finished"
    /\ pc' = AfterSelection(overall_changed_files)
    /\ IF overall_changed_files = {}
       THEN out' = <<Msg("No files were staged from the selected commits", <<>>)>>
       ELSE out' = <<Msg("The following commits were selected", <<>>)>>
    /\ UNCHANGED <<files, dirs, start_date_input, end_date_input, commits,
                   overall_changed_files, selected_commit_indices, archive,
                   user_input, copy_env, env_log, backend_calls,
                   manifest_writes, archive_writes, reads>>

\* line 184
WriteManifest ==
    /\ pc = "manifest"
    /\ files' = create_manifest(overall_changed_files, files)
    /\ manifest_writes' = manifest_writes + 1
    /\ pc' = "zip"
    /\ out' = <<>>
    /\ UNCHANGED <<dirs, start_date_input, end_date_input, commits,
                   overall_changed_files, selected_commit_indices, archive,
                   user_input, copy_env, env_log, backend_calls,
                   archive_writes, reads>>

\* lines 187-190
WriteArchive ==
    /\ pc = "zip"
    /\ archive' = zip_staging_folder(files, dirs)
    /\ archive_writes' = archive_writes + 1
    /\ pc' = "done"
    /\ out' = <<Msg("ZIP file created successfully", <<>>),
                Msg("Required commits are successfully zipped", <<>>)>>
    /\ UNCHANGED <<files, dirs, start_date_input, end_date_input, commits,
                   overall_changed_files, selected_commit_indices, user_input,
                   copy_env, env_log, backend_calls, manifest_writes, reads>>

Next ==
    \/ OpenRepo
    \/ CheckHead
    \/ PromptStartDate
    \/ PromptEndDate
    \/ QueryCommits
    \/ PrepareStaging
    \/ SelectionPass
    \/ CheckStaged
    \/ WriteManifest
    \/ WriteArchive

Spec == Init /\ [][Next]_vars

-----------------------------------------------------------------------------
(* Vocabulary of the properties *)

Ended == pc \in {"done", "crashed"}

\* a pass of the selection loop is the step that reads an entry in browsing
LoopPass == pc = "browsing" /\ reads' = reads + 1

\* a pass that called copy_files_to_staging
CopyPass == LoopPass /\ copy_env' # <<>>

LeftoversInStaging ==
    {p \in DOMAIN files : Under(staging_folder, p) /\ files[p].kind = "leftover"}

\* the file system never failed a copy in this run
NoCopyFailed == \A p \in Paths : env_log[p] \subseteq {"ok"}

\* the file system gave one answer per file in this run
SteadyAnswers(log) == \A p \in Paths : Cardinality(log[p]) <= 1

\* the repository of the end-to-end scenario, newest first: C3, C2, C1
ScenarioCommits ==
    << Commit("c3", 30, <<"c2">>, <<a_txt, b_c_txt>>),
       Commit("c2", 20, <<"c1">>, <<a_txt>>),
       Commit("c1", 10, <<>>, <<>>) >>

ScenarioRun ==
    /\ commits = ScenarioCommits
    /\ {a_txt, b_c_txt} \subseteq DOMAIN files
    /\ selected_commit_indices \in {<<1, 0>>, <<0, 1>>}
    /\ NoCopyFailed
    /\ pc = "done"
    /\ archive_writes = 1

-----------------------------------------------------------------------------
(* C1 *)

\* C1: when a run has ended, whichever way, the staging folder holds no file
\* that a previous run left there.
C1_NoLeftoverAtEnd == Ended => LeftoversInStaging = {}

-----------------------------------------------------------------------------
(* C2 *)

\* C2: when the manifest is about to be written, the set it will list is
\* exactly the set of the relative paths of the files under the staging
\* folder.
C2_ManifestListsStaging ==
    pc = "manifest" => overall_changed_files = StagedPaths(files)

-----------------------------------------------------------------------------
(* C3 *)

\* C3: once the archiver has run, the names of the archive's entries are
\* exactly the relative paths of the files under the staging folder.
C3_ArchiveIsStaging ==
    archive_writes = 1 => DOMAIN archive = StagedPaths(files)

C3_Witness ==
    /\ archive_writes = 1
    /\ {b_c_txt, changes_json} \subseteq DOMAIN archive
    /\ Join(staging_folder, b_c_txt) \in DOMAIN files

-----------------------------------------------------------------------------
(* C4 *)

\* C4 as stated: in the end-to-end scenario the staged set is {a.txt,
\* b/c.txt}, the manifest lists these two paths, and the archive holds
\* these two entries and no other.
C4_TwoEntriesOnly ==
    ScenarioRun =>
        /\ overall_changed_files = {a_txt, b_c_txt}
        /\ files[manifest_path] = ManifestOf({a_txt, b_c_txt})
        /\ DOMAIN archive = {a_txt, b_c_txt}

\* C4 as amended: in the end-to-end scenario, with every copy succeeding,
\* the staged set is {a.txt, b/c.txt}, the manifest lists these two paths,
\* and the archive holds these two entries, the manifest changes.json, and
\* no other.
C4_TwoEntriesAndManifest ==
    ScenarioRun =>
        /\ overall_changed_files = {a_txt, b_c_txt}
        /\ files[manifest_path] = ManifestOf({a_txt, b_c_txt})
        /\ DOMAIN archive = {a_txt, b_c_txt, changes_json}
        /\ archive[a_txt] = Original(a_txt)
        /\ archive[b_c_txt] = Original(b_c_txt)
        /\ archive[changes_json] = ManifestOf({a_txt, b_c_txt})

C4_Witness == ScenarioRun /\ selected_commit_indices = <<1, 0>>

-----------------------------------------------------------------------------
(* Vocabulary of the loop's properties *)

\* the number an entry denotes, read as the claims read it: digits with an
\* optional sign
Numeric(line) == ParseInt(Entered(line)).ok

NumberOf(line) == ParseInt(Entered(line)).val

\* the entry read by this step selects a commit of the list
Selects(line) ==
    /\ ~IsEndToken(line)
    /\ Numeric(line)
    /\ NumberOf(line) >= 0
    /\ NumberOf(line) < Len(commits)

\* the entry read by this step is neither the token nor an index of the list
InvalidEntry(line) == ~IsEndToken(line) /\ ~Selects(line)

Failed(answer) == answer.mkdir = "error" \/ answer.copy \in {"error", "truncated"}

InWorkingTree(p) == p \in DOMAIN files \/ p \in dirs

Printed(lines, text, path) == Msg(text, path) \in Range(lines)

-----------------------------------------------------------------------------
(* C5 *)

\* C5: in a pass that copies a batch, a failure to create a file's
\* destination or to copy it is answered by a warning naming the file, every
\* file of the batch is still handled, and the loop goes on.
C5_FailureNeverAborts ==
    [][CopyPass =>
          /\ pc' = "browsing"
          /\ \A p \in DOMAIN copy_env' :
                /\ Failed(copy_env'[p]) => Printed(out', "Error copying", p)
                /\ InWorkingTree(p) => copy_env'[p] # NotAsked]_vars

-----------------------------------------------------------------------------
(* C6 *)

\* C6: in a pass that copies a batch, a path whose file is not in the
\* working tree is not added to the staged set and no file appears for it in
\* the staging folder; when nothing else fails in the pass, a warning names
\* it, every file of the batch that exists is staged with its content, and
\* the loop goes on. The manifest, when written, lists only paths that exist
\* in the working tree.
C6_MissingFileSkipped ==
    [][/\ CopyPass =>
            /\ \A p \in DOMAIN copy_env' :
                  ~InWorkingTree(p) =>
                      /\ p \notin overall_changed_files'
                      /\ Join(staging_folder, p) \notin DOMAIN files'
            /\ (\A p \in DOMAIN copy_env' : ~Failed(copy_env'[p])) =>
                  /\ pc' = "browsing"
                  /\ \A p \in DOMAIN copy_env' :
                        IF InWorkingTree(p)
                        THEN /\ p \in overall_changed_files'
                             /\ files'[Join(staging_folder, p)] = files[p]
                        ELSE Printed(out', "Warning: file does not exist", p)
       /\ (pc = "manifest" /\ pc' = "zip") =>
            \A p \in files'[manifest_path].paths : InWorkingTree(p)]_vars

C6_Witness ==
    /\ pc = "zip"
    /\ \E i \in Range(selected_commit_indices) :
          d_txt \in Range(commits[i + 1].diff)
    /\ ~InWorkingTree(d_txt)
    /\ files[manifest_path] = ManifestOf({b_c_txt})
    /\ Join(staging_folder, b_c_txt) \in DOMAIN files

-----------------------------------------------------------------------------
(* C7 *)

\* C7: a malformed date, a start date later than the end date, an index out
\* of range and an entry that is no number are each reported, and none of
\* them ends the run: the prompt is asked again or the entry is ignored.
C7_InvalidInputNeverEnds ==
    [][/\ (pc = "start_date" /\ reads' = reads + 1
              /\ ~parse_date_input(start_date_input').ok) =>
            (pc' = "start_date" /\ out' # <<>>)
       /\ (pc = "end_date" /\ reads' = reads + 1
              /\ ~parse_date_input(end_date_input').ok) =>
            (pc' = "end_date" /\ out' # <<>>)
       /\ (pc = "query" /\ pc' # "query"
              /\ parse_date_input(start_date_input).val
                    > parse_date_input(end_date_input).val) =>
            (~Ended' /\ out' # <<>>)
       /\ (LoopPass /\ InvalidEntry(user_input')) =>
            (pc' = "browsing" /\ out' # <<>>)]_vars

-----------------------------------------------------------------------------
(* C8 *)

\* C8: with the file system answering each file the same way throughout the
\* run, a pass that selects an index selected before leaves the staged set
\* and the staging folder as they were, so the run ends as the run without
\* that pass does.
C8_ReselectChangesNothing ==
    [][(/\ LoopPass
        /\ Selects(user_input')
        /\ NumberOf(user_input') \in Range(selected_commit_indices)
        /\ SteadyAnswers(env_log')) =>
            /\ overall_changed_files' = overall_changed_files
            /\ StagedPaths(files') = StagedPaths(files)
            /\ files' = files
            /\ pc' = "browsing"]_vars

C8_Witness ==
    /\ pc = "browsing"
    /\ overall_changed_files # {}
    /\ SteadyAnswers(env_log)
    /\ \E i, j \in 1..Len(selected_commit_indices) :
          /\ i < j
          /\ j = Len(selected_commit_indices)
          /\ selected_commit_indices[i] = selected_commit_indices[j]
          /\ Len(commits[selected_commit_indices[j] + 1].diff) > 0

-----------------------------------------------------------------------------
(* C9 *)

\* C9: a pass that selects a commit without parents adds no path to the
\* staged set, changes no file and no directory, raises nothing and leaves
\* the loop in browsing.
C9_RootCommitStagesNothing ==
    [][(/\ LoopPass
        /\ Selects(user_input')
        /\ Len(commits[NumberOf(user_input') + 1].parents) = 0) =>
            /\ overall_changed_files' = overall_changed_files
            /\ files' = files
            /\ dirs' = dirs
            /\ pc' = "browsing"]_vars

C9_Witness ==
    /\ pc = "browsing"
    /\ Len(selected_commit_indices) = 2
    /\ Len(commits[selected_commit_indices[2] + 1].parents) = 0
    /\ overall_changed_files # {}
    /\ Printed(out, "has no parent, skipping", <<>>)

-----------------------------------------------------------------------------
(* C10 *)

\* C10: in browsing, a number outside [0, commit_count), negative numbers
\* included, and an entry that is neither a number nor the token are
\* answered by a diagnostic and change nothing: the list of selected
\* indices, the staged set and the file system stay as they were and the
\* loop stays in browsing.
C10_InvalidEntryChangesNothing ==
    [][(LoopPass /\ InvalidEntry(user_input')) =>
            /\ out' \in {<<Msg("Index out of range", <<>>)>>,
                         <<Msg("Invalid input", <<>>)>>}
            /\ selected_commit_indices' = selected_commit_indices
            /\ overall_changed_files' = overall_changed_files
            /\ files' = files
            /\ dirs' = dirs
            /\ pc' = "browsing"]_vars

C10_Witness ==
    /\ pc = "browsing"
    /\ user_input = <<"-", "1">>
    /\ out = <<Msg("Index out of range", <<>>)>>
    /\ overall_changed_files # {}

-----------------------------------------------------------------------------
(* C11 *)

\* C11: when the range query returns no commit, and when the loop is left
\* with nothing staged, the run prints the condition and ends there: the
\* archive staged_commits.zip is not written, and an ended run takes no
\* further step.
C11_EmptyResultWritesNoArchive ==
    [][/\ ~Ended
       /\ (\/ (pc = "query" /\ pc' # "query" /\ commits' = <<>>)
           \/ (pc = "finished" /\ pc' # "finished" /\ overall_changed_files = {})) =>
             /\ pc' = "done"
             /\ out' # <<>>
             /\ archive' = archive
             /\ archive_writes' = 0
             /\ manifest_writes' = 0]_vars

C11_Witness ==
    /\ pc = "done"
    /\ out = <<Msg("No files were staged from the selected commits", <<>>)>>
    /\ Len(selected_commit_indices) > 0
    /\ archive_writes = 0

-----------------------------------------------------------------------------
(* parse_date_input and get_commits_between_dates on their own: the two    *)
(* functions applied to date strings written in every form below           *)

Two(n) == <<Digits[(n \div 10) + 1], Digits[(n % 10) + 1]>>

Four(n) == <<Digits[(n \div 1000) + 1], Digits[((n \div 100) % 10) + 1]>> \o Two(n % 100)

Short(n) == IF n < 10 THEN <<Digits[n + 1]>> ELSE Two(n)

\* dd/mm/yyyy, d/m/yyyy, and d/m/yyyy with a space before a one-digit day
Padded(d, m, y) == Two(d) \o <<"/">> \o Two(m) \o <<"/">> \o Four(y)

Unpadded(d, m, y) == Short(d) \o <<"/">> \o Short(m) \o <<"/">> \o Four(y)

SpaceDay(d, m, y) == <<" ">> \o Unpadded(d, m, y)

\* the malformed writings: another separator, year first, month first, a
\* field that is no number, text after the year, a year of two digits
Dashed(d, m, y) == Two(d) \o <<"-">> \o Two(m) \o <<"-">> \o Four(y)

YearFirst(d, m, y) == Four(y) \o <<"/">> \o Two(m) \o <<"/">> \o Two(d)

MonthFirst(d, m, y) == Two(m) \o <<"/">> \o Two(d) \o <<"/">> \o Four(y)

Lettered(d, m, y) == <<"a", "a", "/">> \o Two(m) \o <<"/">> \o Four(y)

Trailed(d, m, y) == Padded(d, m, y) \o <<"x">>

ShortYear(d, m, y) == Two(d) \o <<"/">> \o Two(m) \o <<"/">> \o Two(y % 100)

Days == {1, 9, 13, 29, 30, 31}
Months == {1, 2, 4, 12}
Years == {1, 2023, 2024}

DigitForms(d, m, y) == {Padded(d, m, y), Unpadded(d, m, y)}

WellFormed(d, m, y) ==
    DigitForms(d, m, y) \cup (IF d < 10 THEN {SpaceDay(d, m, y)} ELSE {})

Malformed(d, m, y) ==
    {Dashed(d, m, y), YearFirst(d, m, y), Lettered(d, m, y), Trailed(d, m, y),
     ShortYear(d, m, y)}
    \cup (IF d > 12 THEN {MonthFirst(d, m, y)} ELSE {})

DateStrings ==
    UNION {WellFormed(d, m, y) \cup Malformed(d, m, y) :
              d \in Days, m \in Months, y \in Years}

\* the end dates, as <<day, month, year>>, and the strings written for them
EndDates == {<<1, 2, 2024>>, <<1, 1, 2024>>, <<31, 12, 2023>>}

EndStrings ==
    {Padded(1, 2, 2024), Unpadded(1, 1, 2024), Padded(31, 12, 2023), Dashed(1, 2, 2024)}

DatesInit ==
    /\ pc = "dates"
    /\ start_date_input \in DateStrings
    /\ end_date_input \in EndStrings
    /\ files = <<>>
    /\ dirs = {repo_path}
    /\ archive = <<>>
    /\ commits = <<>>
    /\ overall_changed_files = {}
    /\ selected_commit_indices = <<>>
    /\ out = <<>>
    /\ user_input = <<>>
    /\ copy_env = <<>>
    /\ env_log = [p \in Paths |-> {}]
    /\ backend_calls = 0
    /\ manifest_writes = 0
    /\ archive_writes = 0
    /\ reads = 0

\* parse_date_input applied to both strings; out holds the two results
ParseDates ==
    /\ pc = "dates"
    /\ out' = <<parse_date_input(start_date_input), parse_date_input(end_date_input)>>
    /\ pc' = "parsed"
    /\ UNCHANGED <<files, dirs, start_date_input, end_date_input, commits,
                   overall_changed_files, selected_commit_indices, archive,
                   user_input, copy_env, env_log, backend_calls,
                   manifest_writes, archive_writes, reads>>

\* get_commits_between_dates applied to both strings
RangeQuery ==
    /\ pc = "parsed"
    /\ \E history \in Histories :
          LET r == get_commits_between_dates(history, start_date_input, end_date_input)
          IN  /\ r.called \/ history = <<>>    \* unasked, the backend answers nothing
              /\ commits' = r.commits
              /\ backend_calls' = backend_calls + (IF r.called THEN 1 ELSE 0)
              /\ out' = r.out
    /\ pc' = "queried"
    /\ UNCHANGED <<files, dirs, start_date_input, end_date_input,
                   overall_changed_files, selected_commit_indices, archive,
                   user_input, copy_env, env_log, manifest_writes,
                   archive_writes, reads>>

DatesNext == ParseDates \/ RangeQuery

DatesSpec == DatesInit /\ [][DatesNext]_vars

\* the calendar, stated apart from the parser
RealDate(d, m, y) ==
    /\ y >= 1 /\ m \in 1..12 /\ d >= 1
    /\ \/ m \in {1, 3, 5, 7, 8, 10, 12} /\ d <= 31
       \/ m \in {4, 6, 9, 11} /\ d <= 30
       \/ m = 2 /\ d <= 28
       \/ m = 2 /\ d = 29 /\ ((y % 4 = 0 /\ y % 100 # 0) \/ y % 400 = 0)

Later(d1, m1, y1, d2, m2, y2) ==
    \/ y1 > y2
    \/ y1 = y2 /\ m1 > m2
    \/ y1 = y2 /\ m1 = m2 /\ d1 > d2

TheDate(d, m, y) == [ok |-> TRUE, val |-> (y * 10000) + (m * 100) + d]

-----------------------------------------------------------------------------
(* C12 *)

\* C12: for two date strings that both denote a date, the start later than
\* the end, the range query returns the empty list and does not ask the
\* backend for commits.
C12_LaterStartAsksNothing ==
    pc = "queried" =>
        \A d1 \in Days, m1 \in Months, y1 \in Years, e \in EndDates :
            (/\ start_date_input \in WellFormed(d1, m1, y1)
             /\ end_date_input \in WellFormed(e[1], e[2], e[3])
             /\ RealDate(d1, m1, y1) /\ RealDate(e[1], e[2], e[3])
             /\ Later(d1, m1, y1, e[1], e[2], e[3])) =>
                /\ commits = <<>>
                /\ backend_calls = 0
                /\ out = <<Msg("Start date must be earlier than or equal to end date", <<>>)>>

C12_Witness ==
    /\ pc = "queried"
    /\ start_date_input = Unpadded(29, 2, 2024)
    /\ end_date_input = Padded(1, 2, 2024)
    /\ commits = <<>>
    /\ backend_calls = 0

-----------------------------------------------------------------------------
(* C13 *)

PositionIn(history, sha) == CHOOSE i \in 1..Len(history) : history[i].hexsha = sha

\* list holds the commits of history, each once, and two commits of one
\* timestamp stand in list in the order they have in history
KeepsOrderOfTies(list, history) ==
    /\ Len(list) = Len(history)
    /\ Range(list) = Range(history)
    /\ \A i, j \in 1..Len(list) :
          (i < j /\ list[i].committed_date = list[j].committed_date) =>
              PositionIn(history, list[i].hexsha) < PositionIn(history, list[j].hexsha)

\* C13 as stated: in the list the range query returns, each commit's
\* timestamp is strictly greater than that of the commit after it, also
\* when commits share a timestamp.
C13_StrictlyNewestFirst ==
    \A i \in 1..(Len(commits) - 1) :
        commits[i].committed_date > commits[i + 1].committed_date

\* C13 as amended: whatever order the backend supplies the commits in, in
\* the list the range query returns each commit's timestamp is greater than
\* or equal to that of the commit after it, and commits that share a
\* timestamp keep the order the backend supplied them in.
C13_NewestFirst ==
    /\ \A i \in 1..(Len(commits) - 1) :
          commits[i].committed_date >= commits[i + 1].committed_date
    /\ \E history \in Histories : KeepsOrderOfTies(commits, history)

C13_Witness ==
    /\ pc = "prepare"
    /\ \E history \in Histories :
          /\ KeepsOrderOfTies(commits, history)
          /\ commits # history
    /\ \E i \in 1..(Len(commits) - 1) :
          commits[i].committed_date = commits[i + 1].committed_date

-----------------------------------------------------------------------------
(* C14 *)

\* what every reading of the claim shares: a day/month/year string of a real
\* date parses to that date, one of no real date fails, and so does every
\* malformed writing
ParsesAsWritten(forms(_, _, _)) ==
    /\ \A d \in Days, m \in Months, y \in Years :
          start_date_input \in forms(d, m, y) =>
              out[1] = (IF RealDate(d, m, y) THEN TheDate(d, m, y) ELSE None)
    /\ \A d \in Days, m \in Months, y \in Years :
          start_date_input \in Malformed(d, m, y) => out[1] = None

-----------------------------------------------------------------------------
(* C15 *)

\* C15: the manifest is written once, after the loop was left on the token
\* and before the archive; the archive is written once, after the manifest;
\* the step that writes the manifest changes no other file, and once the
\* manifest is written the file system changes no more, so no copy runs
\* beside or after the archiver.
C15_ManifestThenArchive ==
    [][/\ manifest_writes' # manifest_writes =>
            /\ manifest_writes = 0 /\ manifest_writes' = 1
            /\ archive_writes = 0
            /\ pc = "manifest"
            /\ IsEndToken(user_input)
            /\ \A p \in (DOMAIN files \cup DOMAIN files') \ {manifest_path} :
                  p \in DOMAIN files /\ p \in DOMAIN files' /\ files'[p] = files[p]
       /\ archive_writes' # archive_writes =>
            /\ archive_writes = 0 /\ archive_writes' = 1
            /\ manifest_writes = 1
       /\ archive' # archive => archive_writes' # archive_writes
       /\ manifest_writes >= 1 => (files' = files /\ dirs' = dirs)
       /\ (files' # files /\ pc = "browsing") => manifest_writes' = 0
       /\ archive_writes' = 1 => manifest_writes' = 1]_vars

C15_Witness ==
    /\ pc = "done"
    /\ archive_writes = 1
    /\ manifest_writes = 1
    /\ Cardinality(DOMAIN archive) >= 3

-----------------------------------------------------------------------------
(* C16 *)

\* C16: the loop leaves browsing only on the termination token: an entry
\* that is "e" once trimmed and lower-cased moves the loop to finished, and
\* no other entry, an index of the list or not, ends the loop.
C16_OnlyTokenLeavesBrowsing ==
    [][LoopPass =>
          IF Entered(user_input') = <<"e">>
          THEN pc' = "finished"
          ELSE pc' = "browsing"]_vars

-----------------------------------------------------------------------------
(* C17 *)

\* C17: the accumulated set of staged paths only grows: after every step
\* it holds every path it held before.
C17_StagedSetGrows ==
    [][overall_changed_files \subseteq overall_changed_files']_vars

C17_Witness ==
    /\ pc = "browsing"
    /\ selected_commit_indices = <<1, 0>>
    /\ commits = ScenarioCommits
    /\ overall_changed_files = {a_txt, b_c_txt}

-----------------------------------------------------------------------------
(* C18 *)

OutsideStaging(fs) == {p \in DOMAIN fs : ~Under(staging_folder, p)}

\* C18: no step creates, changes or deletes a file or a directory outside
\* staging_folder; the only other thing a run writes is the archive.
C18_OnlyStagingAndArchive ==
    [][/\ OutsideStaging(files') = OutsideStaging(files)
       /\ \A p \in OutsideStaging(files) : files'[p] = files[p]
       /\ {d \in dirs' : ~IsPrefix(staging_folder, d)}
             = {d \in dirs : ~IsPrefix(staging_folder, d)}]_vars

C18_Witness ==
    /\ pc = "browsing"
    /\ archive # <<>>
    /\ LeftoversInStaging = {}
    /\ Join(staging_folder, b_c_txt) \in DOMAIN files
    /\ files[b_c_txt] = Original(b_c_txt)
    /\ files[a_txt] = Original(a_txt)

-----------------------------------------------------------------------------
(* C19 *)

\* the paths the selected commits changed: a function of the set of the
\* selected indices alone
SelectedDiffs ==
    UNION {Range(commits[i + 1].diff) :
              i \in {j \in Range(selected_commit_indices) :
                        Len(commits[j + 1].parents) > 0}}

CopiedWhole == {p \in SelectedDiffs : env_log[p] = {"ok"}}

CopiedAtAll == {p \in SelectedDiffs : env_log[p] \in {{"ok"}, {"truncated"}}}

\* C19: with the file system answering each file the same way throughout
\* the run, and no exception ending it, the staged set and the paths in the
\* staging folder are those the set of the selected indices determines,
\* whatever the order of the selections and the invalid entries between
\* them; so are the manifest's list and the archive's entry names.
C19_SetOfIndicesDecides ==
    SteadyAnswers(env_log) =>
        /\ pc \in {"browsing", "finished", "manifest"} =>
              /\ overall_changed_files = CopiedWhole
              /\ StagedPaths(files) = CopiedAtAll
        /\ (pc = "done" /\ archive_writes = 1) =>
              /\ files[manifest_path] = ManifestOf(CopiedWhole)
              /\ DOMAIN archive = CopiedAtAll \cup {changes_json}

C19_Witness ==
    /\ pc = "done"
    /\ archive_writes = 1
    /\ SteadyAnswers(env_log)
    /\ selected_commit_indices = <<0, 1>>
    /\ DOMAIN archive = {a_txt, b_c_txt, changes_json}

-----------------------------------------------------------------------------
(* C20 *)

\* C20: writing the manifest replaces no staged file: with every copy
\* succeeding, the archive entry of each path the manifest lists holds the
\* content of the working-tree file of that path, changes.json included.
C20_ManifestReplacesNothing ==
    (archive_writes = 1 /\ NoCopyFailed) =>
        \A p \in files[manifest_path].paths : archive[p] = Original(p)

====
